---- MODULE Spec2Model ----
(***************************************************************************)
(* FastTQ: the task dispatch service.                                      *)
(*                                                                         *)
(* The model follows the sources: the HTTP handlers (create_task,          *)
(* update_task_status, update_task_result, register_worker,                *)
(* unregister_worker), the Postgres repositories they call, the Broker     *)
(* coordinator (worker list, round-robin index) and the broker driver the  *)
(* coordinator talks to.  A request is a process; it takes one step per    *)
(* awaited database or broker call, so requests interleave where the       *)
(* runtime can suspend them.  Database and broker calls can fail.          *)
(***************************************************************************)
EXTENDS Integers, Sequences, FiniteSets, TLC

\* ------------------------------------------------------------------ bounds

\* Rows the tasks table may hold (one per submit that reaches create_task).
MaxTasks == 2
\* Worker ids POST /workers may generate.
MaxWorkers == 2
\* Rows the task_results table may hold.
MaxResults == 1
\* Requests in flight at the same time.
NumProcs == 2
\* Requests served in one behaviour.
MaxRequests == 5
\* Length of the worker list and of the driver's log in SpecBroker, the
\* specification of the coordinator called directly.
MaxRegistry == 3
MaxLog == 4
\* Rows of task_results in SpecTaskStore, the specification of the task
\* repository called directly.
MaxStoredResults == 2

Procs == 1..NumProcs

\* ------------------------------------------------------------ input values

\* None::<Uuid>
NoId == 0
\* Option<serde_json::Value>: None serialises to JSON null.
JsonNull == "null"
InputData == {"d1"}
ResultData == {"o1"}
KindNames == {"k1", "k2"}
\* task_kind_name of a POST /tasks body.
SubmitKindNames == {"k1", "k2"}
\* Bodies of POST /workers: name and task_kinds: Vec<String>.
RegisterBodies ==
    {[name |-> "a", task_kinds |-> <<"k1">>],
     [name |-> "b", task_kinds |-> <<"k1", "k2">>]}
\* Bodies of PUT /tasks/{id}/status.
StatusInputs == {"queued", "bogus", "Queued"}

\* TaskStatus, in its string form.
TaskStatusNames ==
    {"pending", "accepted", "queued", "running", "paused", "retrying",
     "completed", "failed", "cancelled", "timeout", "rejected", "blocked"}

\* str::to_lowercase, on the bodies above.
ToLowercase(s) == IF s = "Queued" THEN "queued" ELSE s

\* A conversion that accepts every string as a status.
TaskStatusAny(s) == s

\* TryFrom<&str> for TaskStatus: an exact match on the lowercase names.
InvalidStatus == "Err"
TaskStatusTryFrom(s) == IF s \in TaskStatusNames THEN s ELSE InvalidStatus

\* Uuid::to_string.
UuidStr(id) == "uuid-" \o ToString(id)

VARIABLES
    \* --- Postgres
    task_kinds,            \* table task_kinds: set of [id, name]
    db_workers,            \* table workers: row i is worker id i, [name, active]
    worker_task_kinds,     \* table worker_task_kinds: set of [worker_id, task_kind_id]
    tasks,                 \* table tasks: row i is task id i
    task_results,          \* table task_results, in insertion order
    \* --- Broker (Arc<RwLock<Broker>>)
    workers,               \* Broker.workers
    workers_index,         \* Broker.workers_index
    broker_lock,           \* holder of the RwLock write guard, NoId when free
    \* --- broker driver (BrokerCore)
    queues,                \* declared queues with their bindings
    broker_log,            \* messages the broker accepted
    \* --- requests
    pc, call, resp,
    served,                \* requests received so far
    \* --- SpecBroker: the last call on the coordinator and what it returned
    last_call

db_vars == <<task_kinds, db_workers, worker_task_kinds, tasks, task_results>>
registry_vars == <<workers, workers_index>>
driver_vars == <<queues, broker_log>>
proc_vars == <<pc, call, resp, served>>
vars == <<db_vars, registry_vars, broker_lock, driver_vars, proc_vars, last_call>>

\* ------------------------------------------------------------------ models

\* TaskKind { id, name }
TaskKind(id, name) == [id |-> id, name |-> name]

\* Worker { id, name, task_kind, active } (registered_at is not modelled).
Worker(id, name, kinds, active) ==
    [id |-> id, name |-> name, task_kind |-> kinds, active |-> active]

\* TaskInstance { id, task_kind, input_data, status, assigned_to }
\* (created_at and result are not modelled here).
TaskInstance(id, kind, input, status, assigned) ==
    [id |-> id, task_kind |-> kind, input_data |-> input,
     status |-> status, assigned_to |-> assigned]

NoTask == TaskInstance(NoId, TaskKind(NoId, ""), JsonNull, "", NoId)
NoWorker == Worker(NoId, "", <<>>, FALSE)

\* An eligibility test that compares the kinds' ids.
CanHandleById(worker, task) ==
    \E i \in 1..Len(worker.task_kind) :
        worker.task_kind[i].id = task.task_kind.id

\* Worker::can_handle: some kind of the worker has the task kind's name.
CanHandle(worker, task) ==
    \E i \in 1..Len(worker.task_kind) :
        worker.task_kind[i].name = task.task_kind.name

\* ----------------------------------------------------------- repositories

\* An INSERT of the name under a fresh id whatever the table holds.
InsertTaskKind(table, name) == TaskKind(Cardinality(table) + 1, name)

\* PgTaskKindRepository::get_or_create_task_kind: INSERT .. ON CONFLICT (name)
\* DO UPDATE .. RETURNING id, name.  The row with that name, or a new row
\* with a fresh id.
GetOrCreateTaskKind(table, name) ==
    IF \E k \in table : k.name = name
    THEN CHOOSE k \in table : k.name = name
    ELSE TaskKind(Cardinality(table) + 1, name)

\* The handler's loop over the kind names of a registration: the table after
\* get_or_create of each name.
RECURSIVE GetOrCreateAll(_, _)
GetOrCreateAll(table, names) ==
    IF names = <<>> THEN table
    ELSE GetOrCreateAll(table \union {GetOrCreateTaskKind(table, Head(names))},
                        Tail(names))

\* The TaskKind records that loop collects.
KindsOf(table, names) ==
    [i \in 1..Len(names) |-> CHOOSE k \in table : k.name = names[i]]

\* A tasks row that drops the input it was given.
TaskRowNoInput(task_kind_id, input_data) ==
    [task_kind_id |-> task_kind_id, input_data |-> JsonNull,
     status |-> "pending", assigned_to |-> NoId]

\* PgTaskInstanceRepository::create_task: the inserted row.
TaskRow(task_kind_id, input_data) ==
    [task_kind_id |-> task_kind_id, input_data |-> input_data,
     status |-> "pending", assigned_to |-> NoId]

\* An assignment that writes the status and leaves assigned_to as it was.
AssignStatusOnly(table, task_id, worker_id) ==
    [table EXCEPT ![task_id] = [@ EXCEPT !.status = "queued"]]

\* PgTaskInstanceRepository::assign_task_to_worker:
\* UPDATE tasks SET assigned_to = $1, status = 'queued' WHERE id = $3.
AssignTaskToWorker(table, task_id, worker_id) ==
    [table EXCEPT ![task_id] =
        [@ EXCEPT !.assigned_to = worker_id, !.status = "queued"]]

\* An update of the status that clears the assignee of a finished task.
UpdateTaskStatusFinal(table, task_id, status) ==
    [table EXCEPT ![task_id] =
        [@ EXCEPT !.status = status,
                  !.assigned_to =
                      IF table[task_id].status \in {"completed", "failed", "cancelled"}
                      THEN NoId ELSE @]]

\* A status update that also clears the assignment.
UpdateTaskStatusUnassign(table, task_id, status) ==
    [table EXCEPT ![task_id] = [@ EXCEPT !.status = status, !.assigned_to = NoId]]

\* PgTaskInstanceRepository::update_task_status:
\* UPDATE tasks SET status = $1 WHERE id = $2.
UpdateTaskStatus(table, task_id, status) ==
    [table EXCEPT ![task_id] = [@ EXCEPT !.status = status]]

\* PgTaskInstanceRepository::get_task_by_id: the row joined with its kind.
GetTaskById(id) ==
    TaskInstance(id,
                 CHOOSE k \in task_kinds : k.id = tasks[id].task_kind_id,
                 tasks[id].input_data, tasks[id].status, tasks[id].assigned_to)

\* Completed stored by either upload.
UploadStatusCompleted(is_error) == "completed"

\* The status upload_task_error (Failed) and upload_task_result (Completed)
\* store.
UploadStatus(is_error) == IF is_error THEN "failed" ELSE "completed"

\* A task_results row with the data in the other column.
ResultRowSwapped(task_id, worker_id, is_error, data) ==
    [task_id |-> task_id, worker_id |-> worker_id,
     output_data |-> IF is_error THEN data ELSE JsonNull,
     error_data |-> IF is_error THEN JsonNull ELSE data]

\* A task_results row with the data in both columns.
ResultRowBoth(task_id, worker_id, is_error, data) ==
    [task_id |-> task_id, worker_id |-> worker_id,
     output_data |-> data, error_data |-> data]

\* The task_results row of upload_task_result / upload_task_error.
ResultRow(task_id, worker_id, is_error, data) ==
    [task_id |-> task_id, worker_id |-> worker_id,
     output_data |-> IF is_error THEN JsonNull ELSE data,
     error_data |-> IF is_error THEN data ELSE JsonNull]

\* ----------------------------------------------------------- broker driver

\* BrokerCore::register_queue: declare the queue and bind it.
RegisterQueue(qs, exchange, queue, routing_key) ==
    qs \union {[exchange |-> exchange, queue |-> queue,
                routing_key |-> routing_key]}

\* The message id of a message published without one.
NoMessageId == ""

\* A driver that reports success and keeps nothing.
PublishDropped(log, exchange, routing_key, payload) == log

\* BrokerCore::publish_message, as the coordinator calls it: exchange,
\* routing key and payload; no message id is passed.
PublishMessage(log, exchange, routing_key, payload) ==
    Append(log, [exchange |-> exchange, routing_key |-> routing_key,
                 payload |-> payload, message_id |-> NoMessageId])

\* ------------------------------------------------------ broker coordinator

\* The queues Broker::register_worker has declared after the first n kinds
\* of the worker: one per kind, exchange and queue named after the kind,
\* routing key the worker's name.
RECURSIVE DeclareQueues(_, _, _)
DeclareQueues(qs, worker, n) ==
    IF n = 0 THEN qs
    ELSE RegisterQueue(DeclareQueues(qs, worker, n - 1),
                       worker.task_kind[n].name, worker.task_kind[n].name,
                       worker.name)

\* A registration that pushes the worker before it declares the queues.
PushBeforeDeclare(ws, worker, n) == Append(ws, worker)

\* Broker::register_worker, the worker list after n of the worker's queues
\* were declared: self.workers.push(worker) comes after the loop, so the
\* worker is appended only when every queue was declared.
PushAfterDeclare(ws, worker, n) ==
    IF n = Len(worker.task_kind) THEN Append(ws, worker) ELSE ws

\* Broker::remove_worker: position of the first entry with that id (0: none).
Position(ws, worker_id) ==
    IF \E i \in 1..Len(ws) : ws[i].id = worker_id
    THEN CHOOSE i \in 1..Len(ws) :
            /\ ws[i].id = worker_id
            /\ \A j \in 1..(i - 1) : ws[j].id # worker_id
    ELSE 0

\* Vec::swap_remove(index): the last entry takes the place of the removed one.
SwapRemove(ws, i) ==
    [j \in 1..(Len(ws) - 1) |-> IF j = i THEN ws[Len(ws)] ELSE ws[j]]

\* Vec::remove(index), index 1-based here.
RemoveAt(ws, i) == [j \in 1..(Len(ws) - 1) |-> IF j < i THEN ws[j] ELSE ws[j + 1]]

\* A selection that leaves the index on the worker it accepted.
RECURSIVE ProbeKeepIndex(_, _, _, _)
ProbeKeepIndex(ws, idx, task, remaining) ==
    IF remaining = 0
    THEN [found |-> FALSE, panic |-> FALSE, index |-> idx, worker |-> NoWorker,
          probed |-> <<>>]
    ELSE IF idx >= Len(ws)
    THEN [found |-> FALSE, panic |-> TRUE, index |-> idx, worker |-> NoWorker,
          probed |-> <<>>]
    ELSE IF CanHandle(ws[idx + 1], task)
    THEN [found |-> TRUE, panic |-> FALSE, index |-> idx, worker |-> ws[idx + 1],
          probed |-> <<idx>>]
    ELSE [ProbeKeepIndex(ws, (idx + 1) % Len(ws), task, remaining - 1)
            EXCEPT !.probed = <<idx>> \o @]

\* Broker::publish, the selection: probe at most `remaining` entries from
\* index idx (0-based); each probe reads workers[idx] (out of bounds: panic),
\* advances the index modulo the length, and stops at the first worker that
\* can handle the task.  `probed` lists the positions that were read and
\* tested, in order.
RECURSIVE Probe(_, _, _, _)
Probe(ws, idx, task, remaining) ==
    IF remaining = 0
    THEN [found |-> FALSE, panic |-> FALSE, index |-> idx, worker |-> NoWorker,
          probed |-> <<>>]
    ELSE IF idx >= Len(ws)
    THEN [found |-> FALSE, panic |-> TRUE, index |-> idx, worker |-> NoWorker,
          probed |-> <<>>]
    ELSE IF CanHandle(ws[idx + 1], task)
    THEN [found |-> TRUE, panic |-> FALSE, index |-> (idx + 1) % Len(ws),
          worker |-> ws[idx + 1], probed |-> <<idx>>]
    ELSE [Probe(ws, (idx + 1) % Len(ws), task, remaining - 1)
            EXCEPT !.probed = <<idx>> \o @]

\* A selection that gives up after the first probe.
SelectFirstOnly(ws, idx, task) == Probe(ws, idx, task, 1)

\* (0..self.workers.len()).map(..).find(..): at most one probe per entry.
Select(ws, idx, task) == Probe(ws, idx, task, Len(ws))

\* ---------------------------------------------------------------- requests

\* The inputs of a request (path and body); unused fields keep their default.
Args(name, kinds, input, id, status, is_error) ==
    [name |-> name, kinds |-> kinds, input |-> input, id |-> id,
     status |-> status, is_error |-> is_error]
NoArgs == Args("", <<>>, JsonNull, NoId, "", FALSE)

\* A handler's local variables: the request, and the task, kinds and worker
\* it holds.
Call(op, arg, kinds, task, worker) ==
    [op |-> op, arg |-> arg, kinds |-> kinds, task |-> task, worker |-> worker]
IdleCall == Call("none", NoArgs, <<>>, NoTask, NoWorker)

\* The response to a process's last request: the handler, the status code,
\* the handler's error text and, of a submit answered 201, the task in the
\* body (other bodies are not modelled).  "panic" is a handler that
\* panicked: the request ends without a response.
NoResp == [op |-> "none", status |-> "", error |-> "", body |-> NoTask]
Response(op, status, error) ==
    [op |-> op, status |-> status, error |-> error, body |-> NoTask]
JsonResponse(op, status, body) ==
    [op |-> op, status |-> status, error |-> "", body |-> body]

\* The handler returns: its locals are dropped.
Respond(p, op, status, error) ==
    /\ pc' = [pc EXCEPT ![p] = "idle"]
    /\ resp' = [resp EXCEPT ![p] = Response(op, status, error)]
    /\ call' = [call EXCEPT ![p] = IdleCall]

\* The handler returns Ok((status, Json(body))).
RespondJson(p, op, status, body) ==
    /\ pc' = [pc EXCEPT ![p] = "idle"]
    /\ resp' = [resp EXCEPT ![p] = JsonResponse(op, status, body)]
    /\ call' = [call EXCEPT ![p] = IdleCall]

\* The handler goes on to its next awaited call.
Goto(p, label) ==
    /\ pc' = [pc EXCEPT ![p] = label]
    /\ resp' = [resp EXCEPT ![p] = NoResp]

\* Requests at one of the given steps (bounds the tables: these requests
\* will write a row).
InFlight(labels) == Cardinality({q \in Procs : pc[q] \in labels})

\* A request arrives at an idle process.
Arrive(p) ==
    /\ pc[p] = "idle"
    /\ served < MaxRequests
    /\ served' = served + 1

\* What a caller of the coordinator saw last: the call, its result ("ok",
\* "err", "panic") and, for publish, the task's kind name (and, of a call
\* that succeeded, the kind's id), the returned worker id, and how many
\* publish calls of that kind have succeeded in a row on an unchanged worker
\* list, the first of them entered with index `start`.
CallResult(op, result, error, kind, kind_id, worker_id, streak, start) ==
    [op |-> op, result |-> result, error |-> error, kind |-> kind,
     kind_id |-> kind_id, worker_id |-> worker_id, streak |-> streak,
     start |-> start]
NoCall == CallResult("none", "", "", "", NoId, NoId, 0, 0)

Init ==
    /\ task_kinds = {}
    /\ db_workers = <<>>
    /\ worker_task_kinds = {}
    /\ tasks = <<>>
    /\ task_results = <<>>
    /\ workers = <<>>
    /\ workers_index = 0
    /\ broker_lock = NoId
    /\ queues = {}
    /\ broker_log = <<>>
    /\ pc = [p \in Procs |-> "idle"]
    /\ call = [p \in Procs |-> IdleCall]
    /\ resp = [p \in Procs |-> NoResp]
    /\ served = 0
    /\ last_call = NoCall

\* ------------------------------------------------- POST /tasks (create_task)

\* get_or_create_task_kind(task_kind_name)
SubmitKind(p, name, input) ==
    /\ Arrive(p)
    /\ Len(tasks) + InFlight({"s_create"}) < MaxTasks
    /\ UNCHANGED <<db_workers, worker_task_kinds, tasks, task_results,
                   registry_vars, broker_lock, driver_vars, last_call>>
    /\ \/ /\ task_kinds' = task_kinds \union {GetOrCreateTaskKind(task_kinds, name)}
          /\ call' = [call EXCEPT ![p] =
                        Call("submit", Args(name, <<>>, input, NoId, "", FALSE),
                             <<GetOrCreateTaskKind(task_kinds, name)>>,
                             NoTask, NoWorker)]
          /\ Goto(p, "s_create")
       \/ /\ UNCHANGED task_kinds
          /\ Respond(p, "submit", "500", "Failed to get/create task kind")

\* task_repository.create_task(task_kind.id, input_data): the INSERT, then
\* the SELECT of the kind's name; either statement can fail.
SubmitCreate(p) ==
    /\ pc[p] = "s_create"
    /\ UNCHANGED <<task_kinds, db_workers, worker_task_kinds, task_results,
                   registry_vars, broker_lock, driver_vars, served, last_call>>
    /\ LET kind == call[p].kinds[1]
           row == TaskRow(kind.id, call[p].arg.input)
           id == Len(tasks) + 1
       IN \/ /\ tasks' = Append(tasks, row)
             /\ call' = [call EXCEPT ![p].task =
                            TaskInstance(id, kind, row.input_data, row.status,
                                         row.assigned_to)]
             /\ Goto(p, "s_select")
          \/ /\ tasks' = Append(tasks, row)
             /\ Respond(p, "submit", "500", "Failed to create task")
          \/ /\ UNCHANGED tasks
             /\ Respond(p, "submit", "500", "Failed to create task")

\* A lock that grants every request.
AlwaysGranted == TRUE

\* RwLock::write: the guard is granted only while no other guard is held.
WriteLockFree == broker_lock = NoId

\* broker.write().await, then the synchronous first part of Broker::publish:
\* the selection.  When a worker is found the guard is held into the awaited
\* publish_message; otherwise the call returns and the guard is dropped.
SubmitSelect(p) ==
    /\ pc[p] = "s_select"
    /\ WriteLockFree
    /\ UNCHANGED <<db_vars, workers, driver_vars, served, last_call>>
    /\ LET s == Select(workers, workers_index, call[p].task)
       IN IF s.panic
          THEN /\ UNCHANGED <<workers_index, broker_lock>>
               /\ Respond(p, "submit", "panic", "index out of bounds")
          ELSE IF s.found
          THEN /\ workers_index' = s.index
               /\ broker_lock' = p
               /\ call' = [call EXCEPT ![p].worker = s.worker]
               /\ Goto(p, "s_publish")
          ELSE /\ workers_index' = s.index
               /\ UNCHANGED broker_lock
               /\ Respond(p, "submit", "500", "No available worker")

\* publish_message(task.task_kind.name, worker.name, payload), awaited under
\* the write guard; the guard is dropped when the statement ends.
SubmitPublish(p) ==
    /\ pc[p] = "s_publish"
    /\ broker_lock' = NoId
    /\ UNCHANGED <<db_vars, registry_vars, queues, served, last_call>>
    /\ \/ /\ broker_log' = PublishMessage(broker_log,
                                          call[p].task.task_kind.name,
                                          call[p].worker.name,
                                          call[p].task.input_data)
          /\ UNCHANGED call
          /\ Goto(p, "s_assign")
       \/ /\ UNCHANGED broker_log
          /\ Respond(p, "submit", "500", "Failed to publish task to broker")

\* A handler that marks the task Failed when the assignment fails.
AssignCompensated(table, task_id) ==
    [table EXCEPT ![task_id] = [@ EXCEPT !.status = "failed"]]

\* create_task's map_err on a failed assign_task_to_worker: the error is
\* logged and turned into a 500; the tasks table is not written again.
AssignFailed(table, task_id) == table

\* A body read back from the tasks table after the assignment.
RereadTask(task, table) ==
    [task EXCEPT !.status = table[task.id].status,
                 !.assigned_to = table[task.id].assigned_to]

\* Json(task): the value create_task returned is moved into the response;
\* the table is not read.
ReturnedTask(task, table) == task

\* task_repository.assign_task_to_worker(&task.id, &worker_id), then 201
\* with the task as create_task returned it.
SubmitAssign(p) ==
    /\ pc[p] = "s_assign"
    /\ UNCHANGED <<task_kinds, db_workers, worker_task_kinds, task_results,
                   registry_vars, broker_lock, driver_vars, served, last_call>>
    /\ \/ /\ tasks' = AssignTaskToWorker(tasks, call[p].task.id, call[p].worker.id)
          /\ RespondJson(p, "submit", "201", ReturnedTask(call[p].task, tasks'))
       \/ /\ tasks' = AssignFailed(tasks, call[p].task.id)
          /\ Respond(p, "submit", "500", "Failed to assign task to worker")

\* ------------------------------------------ GET /tasks/{id} (get_task_by_id)

\* A read that finds a row for every id.
AnyTaskRow(table, id) == TRUE

\* SELECT .. FROM tasks WHERE id = $1, fetch_one: RowNotFound when the id
\* has no row.
TaskRowFound(table, id) == id \in 1..Len(table)

\* get_task_by_id(&id, true): the task, 404 on RowNotFound and 500 on any
\* other error.
TaskGet(p, id) ==
    /\ Arrive(p)
    /\ UNCHANGED <<db_vars, registry_vars, broker_lock, driver_vars, last_call>>
    /\ IF TaskRowFound(tasks, id)
       THEN \/ Respond(p, "get", "200", "")
            \/ Respond(p, "get", "500", "Failed to get task")
       ELSE Respond(p, "get", "404", "Task not found")

\* -------------------------------- PUT /tasks/{id}/status (update_task_status)

\* TaskStatus::try_from(body), then get_task_by_id(&id, true); every error
\* of the read is answered 404.
StatusGet(p, id, body) ==
    /\ Arrive(p)
    /\ UNCHANGED <<db_vars, registry_vars, broker_lock, driver_vars, last_call>>
    /\ IF TaskStatusTryFrom(body) = InvalidStatus
       THEN Respond(p, "status", "400", "Invalid task status: " \o body)
       ELSE \/ /\ id \in 1..Len(tasks)
               /\ call' = [call EXCEPT ![p] =
                             Call("status", Args("", <<>>, JsonNull, id, body, FALSE),
                                  <<>>, GetTaskById(id), NoWorker)]
               /\ Goto(p, "t_update")
            \/ Respond(p, "status", "404", "Task not found")

\* task_repository.update_task_status(&task.id, status)
StatusUpdate(p) ==
    /\ pc[p] = "t_update"
    /\ UNCHANGED <<task_kinds, db_workers, worker_task_kinds, task_results,
                   registry_vars, broker_lock, driver_vars, served, last_call>>
    /\ \/ /\ tasks' = UpdateTaskStatus(tasks, call[p].task.id,
                                       TaskStatusTryFrom(call[p].arg.status))
          /\ Respond(p, "status", "200", "")
       \/ /\ UNCHANGED tasks
          /\ Respond(p, "status", "500", "Failed to update task status")

\* -------------------------------- PUT /tasks/{id}/result (update_task_result)

\* get_task_by_id(&id, true) (404 on any error), then
\* task.assigned_to.unwrap(), which panics on a task nobody was assigned.
ResultGet(p, id, is_error) ==
    /\ Arrive(p)
    /\ Len(task_results) + InFlight({"x_upload"}) < MaxResults
    /\ UNCHANGED <<db_vars, registry_vars, broker_lock, driver_vars, last_call>>
    /\ \/ /\ id \in 1..Len(tasks)
          /\ IF tasks[id].assigned_to = NoId
             THEN Respond(p, "result", "panic", "unwrap on None")
             ELSE /\ call' = [call EXCEPT ![p] =
                                Call("result",
                                     Args("", <<>>, JsonNull, id, "", is_error),
                                     <<>>, GetTaskById(id), NoWorker)]
                  /\ Goto(p, "x_upload")
       \/ Respond(p, "result", "404", "Task not found")

\* upload_task_result / upload_task_error with the body's data: one
\* transaction that sets the status and inserts the result row.
ResultUpload(p, data) ==
    /\ pc[p] = "x_upload"
    /\ UNCHANGED <<task_kinds, db_workers, worker_task_kinds,
                   registry_vars, broker_lock, driver_vars, served, last_call>>
    /\ \/ /\ tasks' = UpdateTaskStatus(tasks, call[p].task.id,
                                     UploadStatus(call[p].arg.is_error))
          /\ task_results' = Append(task_results,
                                ResultRow(call[p].task.id, call[p].task.assigned_to,
                                          call[p].arg.is_error, data))
          /\ Respond(p, "result", "200", "")
       \/ /\ UNCHANGED <<tasks, task_results>>
          /\ Respond(p, "result", "500", "Failed to update task result/error")

\* ------------------------------------------ POST /workers (register_worker)

\* The loop of get_or_create_task_kind over the body's kind names.  A
\* failing call ends the request after the kinds before it were created.
RegisterKinds(p, name, names) ==
    /\ Arrive(p)
    /\ Len(db_workers) + InFlight({"r_db"}) < MaxWorkers
    /\ UNCHANGED <<db_workers, worker_task_kinds, tasks, task_results,
                   registry_vars, broker_lock, driver_vars, last_call>>
    /\ LET arg == Args(name, names, JsonNull, NoId, "", FALSE)
       IN \/ /\ task_kinds' = GetOrCreateAll(task_kinds, names)
             /\ call' = [call EXCEPT ![p] =
                            Call("register", arg,
                                 KindsOf(GetOrCreateAll(task_kinds, names), names),
                                 NoTask, NoWorker)]
             /\ Goto(p, "r_db")
          \/ \E n \in 0..(Len(names) - 1) :
                /\ task_kinds' = GetOrCreateAll(task_kinds, SubSeq(names, 1, n))
                /\ Respond(p, "register", "500", "Failed to get/create task kind")

\* PgWorkerRepository::register_worker, the statements of its transaction:
\* INSERT INTO workers (id, name, registered_at) .. ON CONFLICT (id) DO
\* UPDATE SET name; a new row takes the column default active = true, an
\* existing row keeps its flag.
UpsertWorker(table, id, name) ==
    IF id \in 1..Len(table)
    THEN [table EXCEPT ![id].name = name]
    ELSE Append(table, [name |-> name, active |-> TRUE])

\* The INSERTs of the kind rows without the DELETE before them.
AddWorkerKinds(table, id, kinds) ==
    table \union {[worker_id |-> id, task_kind_id |-> kinds[i].id] :
                     i \in 1..Len(kinds)}

\* DELETE FROM worker_task_kinds WHERE worker_id = id, then one INSERT per
\* kind.
ReplaceWorkerKinds(table, id, kinds) ==
    {r \in table : r.worker_id # id}
        \union {[worker_id |-> id, task_kind_id |-> kinds[i].id] :
                    i \in 1..Len(kinds)}

\* INSERT INTO task_kinds (id, name) .. ON CONFLICT (id) DO NOTHING, per kind.
InsertMissingKinds(table, kinds) ==
    table \union {kinds[i] : i \in {j \in 1..Len(kinds) :
                                      \A k \in table : k.id # kinds[j].id}}

\* A task_kinds table that accepts any name under a new id.
NoNameConflict(table, kinds) == FALSE

\* task_kinds.name is unique (the conflict target of get_or_create_task_kind):
\* the INSERT of a kind whose id is new and whose name is taken raises a
\* unique violation, and the transaction is rolled back.
NameConflict(table, kinds) ==
    \E a, b \in InsertMissingKinds(table, kinds) : a # b /\ a.name = b.name

\* Uuid::new_v4(), then worker_repository.register_worker(id, name, kinds):
\* the transaction, then the read-back of registered_at and active, which
\* can fail after the commit.
RegisterDb(p) ==
    /\ pc[p] = "r_db"
    /\ UNCHANGED served
    /\ UNCHANGED <<tasks, task_results, registry_vars, broker_lock,
                   driver_vars, last_call>>
    /\ LET id == Len(db_workers) + 1
           rows == UpsertWorker(db_workers, id, call[p].arg.name)
       IN \/ /\ db_workers' = rows
             /\ worker_task_kinds' = ReplaceWorkerKinds(worker_task_kinds, id, call[p].kinds)
             /\ ~NameConflict(task_kinds, call[p].kinds)
             /\ task_kinds' = InsertMissingKinds(task_kinds, call[p].kinds)
             /\ \/ /\ call' = [call EXCEPT ![p].worker =
                                  Worker(id, call[p].arg.name, call[p].kinds,
                                         rows[id].active)]
                   /\ Goto(p, "r_broker")
                \/ Respond(p, "register", "500", "Failed to register worker")
          \/ /\ UNCHANGED <<task_kinds, db_workers, worker_task_kinds>>
             /\ Respond(p, "register", "500", "Failed to register worker")

\* broker.write().await.register_worker(worker): one register_queue per
\* kind of the worker, then the push.  A failing register_queue returns the
\* error after the queues before it were declared.  The guard is held from
\* the first declaration to the push, and nothing else reads the queues, so
\* the call is one step.
RegisterBroker(p) ==
    /\ pc[p] = "r_broker"
    /\ UNCHANGED served
    /\ WriteLockFree
    /\ UNCHANGED <<db_vars, workers_index, broker_lock, broker_log,
                   last_call>>
    /\ LET w == call[p].worker
       IN \/ /\ queues' = DeclareQueues(queues, w, Len(w.task_kind))
             /\ workers' = PushAfterDeclare(workers, w, Len(w.task_kind))
             /\ Respond(p, "register", "201", "")
          \/ \E n \in 0..(Len(w.task_kind) - 1) :
                /\ queues' = DeclareQueues(queues, w, n)
                /\ workers' = PushAfterDeclare(workers, w, n)
                /\ Respond(p, "register", "500", "Failed to register worker in broker")

\* ------------------------------------ DELETE /workers/{id} (unregister_worker)

\* PgWorkerRepository::set_worker_active: UPDATE workers SET active = $1
\* WHERE id = $2 (the new table).
SetWorkerActive(table, id, active) == [table EXCEPT ![id].active = active]

\* An UPDATE that reports a row affected for every id.
AnyWorkerRow(table, id) == TRUE

\* UPDATE workers SET active = $1 WHERE id = $2: rows_affected() > 0.
WorkerRowFound(table, id) == id \in 1..Len(table)

\* worker_repository.set_worker_active(&id, false): RowNotFound, answered
\* 404, when no row was updated.
UnregisterDb(p, id) ==
    /\ Arrive(p)
    /\ UNCHANGED <<task_kinds, worker_task_kinds, tasks, task_results,
                   registry_vars, broker_lock, driver_vars, last_call>>
    /\ IF WorkerRowFound(db_workers, id)
       THEN \/ /\ db_workers' = SetWorkerActive(db_workers, id, FALSE)
               /\ call' = [call EXCEPT ![p] =
                             Call("unregister",
                                  Args("", <<>>, JsonNull, id, "", FALSE),
                                  <<>>, NoTask, NoWorker)]
               /\ Goto(p, "u_broker")
            \/ /\ UNCHANGED db_workers
               /\ Respond(p, "unregister", "500", "Failed to deactivate worker")
       ELSE /\ UNCHANGED db_workers
            /\ Respond(p, "unregister", "404", "Worker not found")

\* broker.write().await.remove_worker(&id): position(..).unwrap() panics when
\* the id is not in the list; otherwise the first entry with the id is
\* removed.  The index is left as it is and no queue is deleted.
UnregisterBroker(p) ==
    /\ pc[p] = "u_broker"
    /\ UNCHANGED served
    /\ WriteLockFree
    /\ UNCHANGED <<db_vars, workers_index, broker_lock, driver_vars,
                   last_call>>
    /\ LET i == Position(workers, call[p].arg.id)
       IN IF i = 0
          THEN /\ UNCHANGED workers
               /\ Respond(p, "unregister", "panic", "unwrap on None")
          ELSE /\ workers' = RemoveAt(workers, i)
               /\ Respond(p, "unregister", "200", "")

\* ----------------------------------------------------------- specifications

Step(p) ==
    \/ \E name \in SubmitKindNames, input \in InputData : SubmitKind(p, name, input)
    \/ SubmitCreate(p)
    \/ SubmitSelect(p)
    \/ SubmitPublish(p)
    \/ SubmitAssign(p)
    \/ \E id \in 1..MaxTasks : TaskGet(p, id)
    \/ \E id \in 1..MaxTasks, body \in StatusInputs : StatusGet(p, id, body)
    \/ StatusUpdate(p)
    \/ \E id \in 1..MaxTasks, is_error \in BOOLEAN : ResultGet(p, id, is_error)
    \/ \E data \in ResultData : ResultUpload(p, data)
    \/ \E body \in RegisterBodies : RegisterKinds(p, body.name, body.task_kinds)
    \/ RegisterDb(p)
    \/ RegisterBroker(p)
    \/ \E id \in 1..MaxWorkers : UnregisterDb(p, id)
    \/ UnregisterBroker(p)

\* Requests served concurrently.
Next == \E p \in Procs : Step(p)
Spec == Init /\ [][Next]_vars

\* Requests served one at a time: a request starts only when no other is
\* in flight.
Alone(p) == \A q \in Procs \ {p} : pc[q] = "idle"
NextSeq == \E p \in Procs : Alone(p) /\ Step(p)
SpecSeq == Init /\ [][NextSeq]_vars

\* The worker endpoints alone (the galactus service), one request at a
\* time, with a registration body whose task_kinds is the empty Vec.
WorkerBodies == RegisterBodies \union {[name |-> "a", task_kinds |-> <<>>]}

StepWorkers(p) ==
    \/ \E body \in WorkerBodies : RegisterKinds(p, body.name, body.task_kinds)
    \/ RegisterDb(p)
    \/ RegisterBroker(p)
    \/ \E id \in 1..MaxWorkers : UnregisterDb(p, id)
    \/ UnregisterBroker(p)

NextWorkers == \E p \in Procs : Alone(p) /\ StepWorkers(p)
SpecWorkers == Init /\ [][NextWorkers]_vars

\* ------------------------------------------ the coordinator called directly

\* Broker::new, then register_worker, remove_worker and publish called on
\* the value by one caller (as the module's tests do), the driver free to
\* fail.

\* Kinds named in the calls.
PublishKindNames == {"k1", "k2"}
KindNamed(name) == TaskKind(IF name = "k1" THEN 1 ELSE 2, name)
KindsNamed(names) == [i \in 1..Len(names) |-> KindNamed(names[i])]
\* The ids a task's kind of that name may carry: the id of the kind the
\* workers were built with (a clone of it), or the id of another
\* TaskKind::new(name), which is a fresh Uuid.
TaskKindIds(name) ==
    {KindNamed(name).id, KindNamed(name).id + Cardinality(PublishKindNames)}

\* Broker::register_worker(worker)
BrokerRegisterWorker(id, body) ==
    /\ Len(workers) < MaxRegistry
    /\ UNCHANGED <<db_vars, workers_index, broker_lock, broker_log, proc_vars>>
    /\ LET w == Worker(id, body.name, KindsNamed(body.task_kinds), TRUE)
       IN \/ /\ queues' = DeclareQueues(queues, w, Len(w.task_kind))
             /\ workers' = PushAfterDeclare(workers, w, Len(w.task_kind))
             /\ last_call' = CallResult("register", "ok", "", "", NoId, id, 0, 0)
          \/ \E n \in 0..(Len(w.task_kind) - 1) :
                /\ queues' = DeclareQueues(queues, w, n)
                /\ workers' = PushAfterDeclare(workers, w, n)
                /\ last_call' = CallResult("register", "err", "register_queue",
                                           "", NoId, id, 0, 0)

\* Broker::remove_worker(worker_id)
BrokerRemoveWorker(id) ==
    /\ UNCHANGED <<db_vars, workers_index, broker_lock, driver_vars, proc_vars>>
    /\ LET i == Position(workers, id)
       IN IF i = 0
          THEN /\ UNCHANGED workers
               /\ last_call' = CallResult("remove", "panic", "unwrap on None",
                                          "", NoId, id, 0, 0)
          ELSE /\ workers' = RemoveAt(workers, i)
               /\ last_call' = CallResult("remove", "ok", "", "", NoId, id, 0, 0)

\* Broker::publish(task)
BrokerPublish(kind, kind_id, input) ==
    /\ Len(broker_log) < MaxLog
    /\ UNCHANGED <<db_vars, workers, broker_lock, queues, proc_vars>>
    /\ LET task == TaskInstance(Len(broker_log) + 1, TaskKind(kind_id, kind),
                                input, "pending", NoId)
           s == Select(workers, workers_index, task)
           again == /\ last_call.op = "publish"
                    /\ last_call.result = "ok"
                    /\ last_call.kind = kind
       IN IF s.panic
          THEN /\ UNCHANGED <<workers_index, broker_log>>
               /\ last_call' = CallResult("publish", "panic", "index out of bounds",
                                          kind, NoId, NoId, 0, 0)
          ELSE /\ workers_index' = s.index
               /\ IF ~s.found
                  THEN /\ UNCHANGED broker_log
                       /\ last_call' = CallResult("publish", "err",
                                                  "No available worker",
                                                  kind, NoId, NoId, 0, 0)
                  ELSE \/ /\ broker_log' = PublishMessage(broker_log, kind,
                                                          s.worker.name, input)
                          /\ last_call' =
                                CallResult("publish", "ok", "", kind, kind_id,
                                           s.worker.id,
                                           IF again THEN last_call.streak + 1 ELSE 1,
                                           IF again THEN last_call.start
                                                    ELSE workers_index)
                       \/ /\ UNCHANGED broker_log
                          /\ last_call' = CallResult("publish", "err",
                                                     "publish_message",
                                                     kind, NoId, NoId, 0, 0)

NextBroker ==
    \/ \E id \in 1..MaxRegistry, body \in RegisterBodies : BrokerRegisterWorker(id, body)
    \/ \E id \in 1..MaxRegistry : BrokerRemoveWorker(id)
    \/ \E kind \in PublishKindNames, input \in InputData :
          \E kind_id \in TaskKindIds(kind) : BrokerPublish(kind, kind_id, input)
SpecBroker == Init /\ [][NextBroker]_vars

\* ---------------------------------------- the worker store called directly

\* What a repository call returned: the operation, Ok or Err, its arguments
\* and the value of an Ok.
StoreResult(op, result, arg, value) ==
    [op |-> op, result |-> result, arg |-> arg, value |-> value]

\* TaskKind::new(name): a kind under a fresh id that is not in task_kinds.
NewTaskKinds(table) ==
    {TaskKind(Cardinality(table) + 1, name) : name \in KindNames}

\* The task_kinds arguments of register_worker: kinds read from the table
\* or built by TaskKind::new, one or two of them, of distinct ids.
KindLists(table) ==
    LET kinds == table \union NewTaskKinds(table)
    IN {<<k>> : k \in kinds}
         \union {<<q[1], q[2]>> :
                    q \in {r \in kinds \X kinds : r[1].id # r[2].id}}

\* The task_kind_id column of the worker_task_kinds rows of a worker.
StoredKindIds(table, id) ==
    {r.task_kind_id : r \in {x \in table : x.worker_id = id}}

\* The ids of a list of kinds.
KindIds(kinds) == {kinds[i].id : i \in 1..Len(kinds)}

\* PgTaskKindRepository::get_or_create_task_kind(name): one INSERT .. ON
\* CONFLICT (name) DO UPDATE .. RETURNING statement.
StoreGetOrCreateTaskKind(name) ==
    /\ UNCHANGED <<db_workers, worker_task_kinds, tasks, task_results,
                   registry_vars, broker_lock, driver_vars, proc_vars, served>>
    /\ \/ /\ task_kinds' = task_kinds \union {GetOrCreateTaskKind(task_kinds, name)}
          /\ last_call' = StoreResult("get_or_create_task_kind", "ok",
                                      [name |-> name],
                                      GetOrCreateTaskKind(task_kinds, name))
       \/ /\ UNCHANGED task_kinds
          /\ last_call' = StoreResult("get_or_create_task_kind", "err",
                                      [name |-> name], TaskKind(NoId, ""))

\* PgWorkerRepository::register_worker(id, name, task_kinds): the
\* transaction (upsert the worker, replace its kind rows, insert the missing
\* kinds), the commit, and the read-back of registered_at and active.
StoreRegisterWorker(id, name, kinds) ==
    /\ id \in 1..(Len(db_workers) + 1)
    /\ id <= MaxWorkers
    /\ UNCHANGED <<tasks, task_results, registry_vars, broker_lock,
                   driver_vars, proc_vars, served>>
    /\ LET rows == UpsertWorker(db_workers, id, name)
           arg == [id |-> id, name |-> name, task_kinds |-> kinds]
       IN \/ /\ ~NameConflict(task_kinds, kinds)
             /\ db_workers' = rows
             /\ worker_task_kinds' = ReplaceWorkerKinds(worker_task_kinds, id, kinds)
             /\ task_kinds' = InsertMissingKinds(task_kinds, kinds)
             /\ \/ last_call' = StoreResult("register_worker", "ok", arg,
                                   Worker(id, name, kinds, rows[id].active))
                \/ last_call' = StoreResult("register_worker", "err", arg,
                                            NoWorker)
          \/ /\ UNCHANGED <<task_kinds, db_workers, worker_task_kinds>>
             /\ last_call' = StoreResult("register_worker", "err", arg,
                                         NoWorker)

\* PgWorkerRepository::set_worker_active(id, active): RowNotFound when no
\* row was updated.
StoreSetWorkerActive(id, active) ==
    /\ UNCHANGED <<task_kinds, worker_task_kinds, tasks, task_results,
                   registry_vars, broker_lock, driver_vars, proc_vars, served>>
    /\ LET arg == [id |-> id, active |-> active]
       IN \/ /\ WorkerRowFound(db_workers, id)
             /\ db_workers' = SetWorkerActive(db_workers, id, active)
             /\ last_call' = StoreResult("set_worker_active", "ok", arg, TRUE)
          \/ /\ UNCHANGED db_workers
             /\ last_call' = StoreResult("set_worker_active", "err", arg, FALSE)

NextWorkerStore ==
    \/ \E name \in KindNames : StoreGetOrCreateTaskKind(name)
    \/ \E id \in 1..MaxWorkers, name \in {"a", "b"},
          kinds \in KindLists(task_kinds) : StoreRegisterWorker(id, name, kinds)
    \/ \E id \in 1..MaxWorkers, active \in BOOLEAN :
          StoreSetWorkerActive(id, active)

SpecWorkerStore == Init /\ [][NextWorkerStore]_vars

\* ------------------------------------------ the task store called directly

\* input_data of create_task: a value, or None.
StoreInputs == InputData \union {JsonNull}
\* The kind names of the tasks of SpecTaskStore.
StoreKindNames == {"k1"}
\* The statuses given to update_task_status.
StoreStatuses == {"running"}

\* serde_json::Value::Null, the data of a body {"data": null, ..}: bound as
\* the jsonb value null, a column that is not NULL.
JsonValueNull == "jsonb null"
\* The data given to upload_task_result and upload_task_error.
StoreResultData == ResultData \union {JsonValueNull}

\* The absent result of a TaskInstance (result: None).
NoResult ==
    [task_id |-> NoId, worker_id |-> NoId,
     output_data |-> JsonNull, error_data |-> JsonNull]

\* The query of the latest result in ascending order.
OldestResult(results, id) ==
    LET rows == {i \in 1..Len(results) : results[i].task_id = id}
    IN IF rows = {} THEN NoResult
       ELSE results[CHOOSE i \in rows : \A j \in rows : i <= j]

\* SELECT .. FROM task_results WHERE task_id = id ORDER BY created_at DESC
\* LIMIT 1, fetch_optional: rows are stamped when inserted, so the latest
\* row is the last one inserted for the task.
LatestResult(results, id) ==
    LET rows == {i \in 1..Len(results) : results[i].task_id = id}
    IN IF rows = {} THEN NoResult
       ELSE results[CHOOSE i \in rows : \A j \in rows : j <= i]

\* The TaskInstance a repository call returns, with its result field.
StoredTask(task, result) == [task |-> task, result |-> result]

\* PgTaskInstanceRepository::create_task(task_kind_id, input_data) for a
\* kind of the table: the INSERT, then the SELECT of the kind, which can
\* fail with the row inserted.
StoreCreateTask(task_kind_id, input_data) ==
    /\ Len(tasks) < MaxTasks
    /\ \E k \in task_kinds : k.id = task_kind_id
    /\ UNCHANGED <<task_kinds, db_workers, worker_task_kinds, task_results,
                   registry_vars, broker_lock, driver_vars, proc_vars, served>>
    /\ LET arg == [task_kind_id |-> task_kind_id, input_data |-> input_data]
           id == Len(tasks) + 1
           kind == CHOOSE k \in task_kinds : k.id = task_kind_id
       IN \/ /\ tasks' = Append(tasks, TaskRow(task_kind_id, input_data))
             /\ \/ last_call' =
                      StoreResult("create_task", "ok", arg,
                          StoredTask(TaskInstance(id, kind, tasks'[id].input_data,
                                                  tasks'[id].status,
                                                  tasks'[id].assigned_to),
                                     NoResult))
                \/ last_call' = StoreResult("create_task", "err", arg,
                                            StoredTask(NoTask, NoResult))
          \/ /\ UNCHANGED tasks
             /\ last_call' = StoreResult("create_task", "err", arg,
                                         StoredTask(NoTask, NoResult))

\* PgTaskInstanceRepository::get_task_by_id(id, include_result):
\* RowNotFound when there is no such task.
StoreGetTaskById(id, include_result) ==
    /\ UNCHANGED <<db_vars, registry_vars, broker_lock, driver_vars,
                   proc_vars, served>>
    /\ LET arg == [id |-> id, include_result |-> include_result]
       IN \/ /\ id \in 1..Len(tasks)
             /\ last_call' =
                   StoreResult("get_task_by_id", "ok", arg,
                       StoredTask(GetTaskById(id),
                                  IF include_result
                                  THEN LatestResult(task_results, id)
                                  ELSE NoResult))
          \/ last_call' = StoreResult("get_task_by_id", "err", arg,
                                      StoredTask(NoTask, NoResult))

\* PgTaskInstanceRepository::assign_task_to_worker(task_id, worker_id): Ok
\* whether or not a row was updated.
StoreAssignTaskToWorker(id, worker_id) ==
    /\ UNCHANGED <<task_kinds, db_workers, worker_task_kinds, task_results,
                   registry_vars, broker_lock, driver_vars, proc_vars, served>>
    /\ LET arg == [id |-> id, worker_id |-> worker_id]
       IN \/ /\ tasks' = IF id \in 1..Len(tasks)
                          THEN AssignTaskToWorker(tasks, id, worker_id)
                          ELSE tasks
             /\ last_call' = StoreResult("assign_task_to_worker", "ok", arg, TRUE)
          \/ /\ UNCHANGED tasks
             /\ last_call' = StoreResult("assign_task_to_worker", "err", arg,
                                         FALSE)

\* PgTaskInstanceRepository::update_task_status(task_id, status): Ok
\* whether or not a row was updated.
StoreUpdateTaskStatus(id, status) ==
    /\ UNCHANGED <<task_kinds, db_workers, worker_task_kinds, task_results,
                   registry_vars, broker_lock, driver_vars, proc_vars, served>>
    /\ LET arg == [id |-> id, status |-> status]
       IN \/ /\ tasks' = IF id \in 1..Len(tasks)
                          THEN UpdateTaskStatus(tasks, id, status)
                          ELSE tasks
             /\ last_call' = StoreResult("update_task_status", "ok", arg, TRUE)
          \/ /\ UNCHANGED tasks
             /\ last_call' = StoreResult("update_task_status", "err", arg, FALSE)

\* A connection without a transaction: the statements executed stay.
KeepWrites(before, within) == within

\* The transaction dropped before txn.commit() (an early return by `?`):
\* the statements executed within it are rolled back.
Rollback(before, within) == before

\* PgTaskInstanceRepository::upload_task_result (is_error = FALSE) and
\* upload_task_error (is_error = TRUE): one transaction that sets the
\* status and inserts the result row; the INSERT fails for a task that does
\* not exist (task_results.task_id references tasks).  A failure comes
\* before the UPDATE or after it, and before the commit.
StoreUpload(id, worker_id, is_error, data) ==
    /\ Len(task_results) < MaxStoredResults
    /\ UNCHANGED <<task_kinds, db_workers, worker_task_kinds,
                   registry_vars, broker_lock, driver_vars, proc_vars, served>>
    /\ LET op == IF is_error THEN "upload_task_error" ELSE "upload_task_result"
           arg == [id |-> id, worker_id |-> worker_id, data |-> data]
       IN \/ /\ id \in 1..Len(tasks)
             /\ tasks' = UpdateTaskStatus(tasks, id, UploadStatus(is_error))
             /\ task_results' = Append(task_results,
                                       ResultRow(id, worker_id, is_error, data))
             /\ last_call' = StoreResult(op, "ok", arg,
                                         ResultRow(id, worker_id, is_error, data))
          \/ /\ \E updated \in BOOLEAN :
                   tasks' = Rollback(tasks,
                               IF updated /\ id \in 1..Len(tasks)
                               THEN UpdateTaskStatus(tasks, id,
                                                     UploadStatus(is_error))
                               ELSE tasks)
             /\ UNCHANGED task_results
             /\ last_call' = StoreResult(op, "err", arg, NoResult)

NextTaskStore ==
    \/ \E name \in StoreKindNames : StoreGetOrCreateTaskKind(name)
    \/ \E k \in task_kinds, input_data \in StoreInputs :
          StoreCreateTask(k.id, input_data)
    \/ \E id \in 1..MaxTasks, include_result \in BOOLEAN :
          StoreGetTaskById(id, include_result)
    \/ \E id \in 1..MaxTasks, status \in StoreStatuses :
          StoreUpdateTaskStatus(id, status)
    \/ \E id \in 1..MaxTasks, worker_id \in 1..MaxWorkers,
          is_error \in BOOLEAN, data \in StoreResultData :
          StoreUpload(id, worker_id, is_error, data)

SpecTaskStore == Init /\ [][NextTaskStore]_vars

\* The calls that write a task's status and assignee, without the uploads:
\* create_task, assign_task_to_worker, update_task_status with any of the
\* statuses below, and get_task_by_id.
AssignStatuses == {"pending", "running", "completed", "failed", "cancelled"}

NextTaskAssign ==
    \/ \E name \in StoreKindNames : StoreGetOrCreateTaskKind(name)
    \/ \E k \in task_kinds, input_data \in StoreInputs :
          StoreCreateTask(k.id, input_data)
    \/ \E id \in 1..MaxTasks : StoreGetTaskById(id, FALSE)
    \/ \E id \in 1..MaxTasks, worker_id \in 1..MaxWorkers :
          StoreAssignTaskToWorker(id, worker_id)
    \/ \E id \in 1..MaxTasks, status \in AssignStatuses :
          StoreUpdateTaskStatus(id, status)

SpecTaskAssign == Init /\ [][NextTaskAssign]_vars

\* ------------------------------------------------------------------ C1

QueuedUnassigned(table, i) ==
    /\ i \in 1..Len(table)
    /\ table[i].status = "queued"
    /\ table[i].assigned_to = NoId

KindNameOf(i) == (CHOOSE k \in task_kinds : k.id = tasks[i].task_kind_id).name

\* The broker accepted a dispatch message for task i: a message on the
\* exchange of the task's kind that carries its input.
Dispatched(i) ==
    \E k \in 1..Len(broker_log) :
        /\ broker_log[k].exchange = KindNameOf(i)
        /\ broker_log[k].payload = tasks[i].input_data

TaskOfKind(kind) == TaskInstance(NoId, KindNamed(kind), JsonNull, "pending", NoId)

\* Positions (0-based) of the workers that can handle the kind.
Eligible(ws, kind) ==
    {i \in 0..(Len(ws) - 1) : CanHandle(ws[i + 1], TaskOfKind(kind))}

\* Round-robin order: the position visited by the n-th of consecutive
\* dispatches of a kind that start at position `start`: the eligible
\* positions in ascending order, cyclically, from the first one at or after
\* `start`.
Visited(ws, kind, start, n) ==
    LET E == Eligible(ws, kind)
        before == Cardinality({e \in E : e < start})
    IN CHOOSE e \in E :
          Cardinality({x \in E : x < e}) = (before + n - 1) % Cardinality(E)

\* C3: consecutive successful publish calls of one kind on an unchanged
\* worker list return the eligible workers in round-robin order; with three
\* workers all eligible and the index initially 0, the i-th call (from 0)
\* returns the id of worker i mod 3.
C3_RoundRobin ==
    (last_call.op = "publish" /\ last_call.result = "ok") =>
        /\ last_call.start < Len(workers)
        /\ last_call.worker_id =
              workers[Visited(workers, last_call.kind, last_call.start,
                              last_call.streak) + 1].id
        /\ (/\ Len(workers) = MaxRegistry
            /\ Eligible(workers, last_call.kind) = 0..(MaxRegistry - 1)
            /\ last_call.start = 0)
           => last_call.worker_id =
                 workers[((last_call.streak - 1) % MaxRegistry) + 1].id

\* Three workers with different ids, all eligible; the fourth publish in a
\* row has wrapped around to the first worker.
C3_Witness ==
    /\ Len(workers) = MaxRegistry
    /\ \A i, j \in 1..Len(workers) : i # j => workers[i].id # workers[j].id
    /\ last_call.op = "publish" /\ last_call.result = "ok"
    /\ Eligible(workers, last_call.kind) = 0..(MaxRegistry - 1)
    /\ last_call.start = 0
    /\ last_call.streak = MaxRegistry + 1
    /\ last_call.worker_id = workers[1].id

\* ------------------------------------------------------------------ C4

\* C4 as stated: for every task published and assigned by a submit the log
\* of accepted messages has exactly one entry whose message id is the task's
\* id, and its routing key is the id of the assigned worker.
C4_OneMessagePerTask ==
    \A i \in 1..Len(tasks) :
        tasks[i].assigned_to # NoId =>
            /\ Cardinality({k \in 1..Len(broker_log) :
                              broker_log[k].message_id = UuidStr(i)}) = 1
            /\ \A k \in 1..Len(broker_log) :
                  broker_log[k].message_id = UuidStr(i) =>
                      broker_log[k].routing_key = UuidStr(tasks[i].assigned_to)

\* ------------------------------------------------------------------ C5

\* C5 as stated: when the assign step of a submit stores a task as Queued
\* for worker w, w has not been deactivated and removed from the registry.
C5_AssignedWorkerStillRegistered ==
    [][\A p \in Procs :
          (pc[p] = "s_assign" /\ pc'[p] = "idle" /\ tasks' # tasks) =>
              \/ db_workers[call[p].worker.id].active
              \/ Position(workers, call[p].worker.id) # 0]_vars

\* ------------------------------------------------------------------ C6

\* The worker the index has just moved past (the one chosen by the last
\* advance).
ChosenByIndex ==
    IF workers = <<>> THEN NoWorker
    ELSE workers[((workers_index + Len(workers) - 1) % Len(workers)) + 1]

\* C6: the write guard is held by one submit from its selection to the end
\* of its publish; while it is held no step changes the worker list, the
\* index or the queues, so the guarded sections run one after another; and
\* each accepted message carries the routing key of the worker the index
\* advance of the same call chose.
C6_SelectAndPublishSerialized ==
    /\ [](broker_lock # NoId =>
            /\ pc[broker_lock] = "s_publish"
            /\ call[broker_lock].worker = ChosenByIndex)
    /\ [](\A p \in Procs : pc[p] = "s_publish" => broker_lock = p)
    /\ [][/\ broker_lock # NoId =>
                /\ workers' = workers
                /\ workers_index' = workers_index
                /\ queues' = queues
          /\ broker_log' # broker_log =>
                /\ broker_lock # NoId
                /\ broker_log' =
                      Append(broker_log,
                             [exchange |-> call[broker_lock].task.task_kind.name,
                              routing_key |-> ChosenByIndex.name,
                              payload |-> call[broker_lock].task.input_data,
                              message_id |-> NoMessageId])]_vars

\* A submit holds the guard while a register, an unregister or another
\* submit waits for it.
C6_Witness ==
    /\ broker_lock # NoId
    /\ \E q \in Procs \ {broker_lock} : pc[q] \in {"s_select", "r_broker", "u_broker"}
    /\ Len(workers) > 1

\* ------------------------------------------------------------------ C7

\* The exchange dispatch messages are submitted on.
SubmissionExchange == "task_submission"

\* C7 as stated: every worker in the coordinator's list has a queue declared
\* on the submission exchange with routing key equal to its id.
C7_QueuePerRegisteredWorker ==
    \A i \in 1..Len(workers) :
        \E q \in queues :
            /\ q.exchange = SubmissionExchange
            /\ q.routing_key = UuidStr(workers[i].id)

\* ------------------------------------------------------------------ C8

\* The worker's own queue is present: a queue named after its id or bound
\* with its id or its name as the routing key.
WorkerQueuePresent(id) ==
    \E q \in queues :
        \/ q.queue = UuidStr(id)
        \/ q.routing_key = UuidStr(id)
        \/ q.routing_key = db_workers[id].name

\* C8 as stated, for the states in which no request is in flight: every
\* worker whose row has active = true has its queue present in the broker.
C8_ActiveWorkerHasQueue ==
    (\A p \in Procs : pc[p] = "idle") =>
        \A id \in 1..Len(db_workers) :
            db_workers[id].active => WorkerQueuePresent(id)

\* ------------------------------------------------------------------ C9

\* C9 as stated: a publish for a kind no worker in the list can handle
\* (the empty list included) fails with "No available worker" and publishes
\* nothing.
C9_NoAvailableWorker ==
    [][(last_call'.op = "publish" /\ Eligible(workers, last_call'.kind) = {}) =>
          /\ last_call'.result = "err"
          /\ last_call'.error = "No available worker"
          /\ broker_log' = broker_log]_vars

\* ----------------------------------------------------------------- C10

\* C10 as stated: a submit that reaches the selection when no worker in the
\* list can handle its kind is answered 500; its task row is still there,
\* Pending with a null assigned_to, and nothing was published.
C10_NoEligibleWorkerAnswered500 ==
    [][\A p \in Procs :
          (/\ pc[p] = "s_select" /\ pc'[p] # "s_select"
           /\ Eligible(workers, call[p].task.task_kind.name) = {}) =>
              /\ resp'[p] = Response("submit", "500", "No available worker")
              /\ tasks'[call[p].task.id].status = "pending"
              /\ tasks'[call[p].task.id].assigned_to = NoId
              /\ broker_log' = broker_log]_vars

\* ----------------------------------------------------------------- C11

\* Some kind of the worker at position i has that name.
HasKindNamed(i, name) ==
    \E k \in 1..Len(workers[i].task_kind) : workers[i].task_kind[k].name = name

\* C11: a worker id returned by publish is the id of an entry of the worker
\* list, and that entry has a kind with the name of the task's kind; the
\* kinds' ids play no part: publish finds no worker only when no entry has a
\* kind of that name.
C11_ReturnedWorkerHandlesKindName ==
    /\ (last_call.op = "publish" /\ last_call.result = "ok") =>
          \E i \in 1..Len(workers) :
              /\ workers[i].id = last_call.worker_id
              /\ HasKindNamed(i, last_call.kind)
    /\ (last_call.op = "publish" /\ last_call.error = "No available worker") =>
          \A i \in 1..Len(workers) : ~HasKindNamed(i, last_call.kind)

\* A publish returned a worker none of whose kinds has the id of the task's
\* kind.
C11_Witness ==
    /\ last_call.op = "publish" /\ last_call.result = "ok"
    /\ \A i \in 1..Len(workers) :
          workers[i].id = last_call.worker_id =>
              \A k \in 1..Len(workers[i].task_kind) :
                  workers[i].task_kind[k].id # last_call.kind_id

\* ----------------------------------------------------------------- C12

\* A queue declared for worker `id` is still in the broker: one named after
\* the id or bound with it, or one bound with the worker's name while no
\* worker of that name is in the list.
QueueLeftBehind(qs, ws, id) ==
    \E q \in qs :
        \/ q.queue = UuidStr(id)
        \/ q.routing_key = UuidStr(id)
        \/ /\ q.routing_key = db_workers[id].name
           /\ \A i \in 1..Len(ws) : ws[i].name # db_workers[id].name

\* C12 as stated: when DELETE /workers/{W.id} is answered 200, W's row has
\* active = false, W is not in the worker list, no queue of W is left in the
\* broker, and a submit of a kind that W handled and no remaining worker
\* handles is refused with "No available worker" (answered 500).
C12_UnregisteredWorkerIsGone ==
    [][\A p \in Procs :
          (pc[p] = "u_broker" /\ resp'[p] = Response("unregister", "200", "")) =>
              /\ ~db_workers'[call[p].arg.id].active
              /\ Position(workers', call[p].arg.id) = 0
              /\ ~QueueLeftBehind(queues', workers', call[p].arg.id)
              /\ \A kind \in SubmitKindNames :
                    (/\ CanHandle(workers[Position(workers, call[p].arg.id)],
                                  TaskOfKind(kind))
                     /\ Eligible(workers', kind) = {}) =>
                        LET s == Select(workers', workers_index', TaskOfKind(kind))
                        IN ~s.panic /\ ~s.found]_vars

\* ----------------------------------------------------------------- C13

\* C13 as stated: when register_worker(w) succeeds right after
\* remove_worker(w.id) took w out of the worker list, the broker has a queue
\* named after w's id and w is in the list exactly once.
C13_ReRegisteredWorkerHasQueue ==
    [][(/\ last_call.op = "remove" /\ last_call.result = "ok"
        /\ Position(workers, last_call.worker_id) = 0
        /\ last_call'.op = "register" /\ last_call'.result = "ok"
        /\ last_call'.worker_id = last_call.worker_id) =>
          /\ \E q \in queues' : q.queue = UuidStr(last_call.worker_id)
          /\ Cardinality({i \in 1..Len(workers') :
                            workers'[i].id = last_call.worker_id}) = 1]_vars

\* ----------------------------------------------------------------- C14

\* The kinds stored for a worker: its worker_task_kinds rows joined with
\* task_kinds, as _get_worker_by_id reads them.
StoredKinds(kinds_table, link_table, id) ==
    {k \in kinds_table : k.id \in StoredKindIds(link_table, id)}

\* C14: a successful register_worker of the Worker Store with an id that
\* already has a row leaves exactly the kinds of this call stored for the
\* worker, each of them a row of task_kinds, and returns these kinds.
C14_ReRegistrationReplacesKinds ==
    [][(/\ last_call'.op = "register_worker"
        /\ last_call'.result = "ok"
        /\ last_call'.arg.id \in 1..Len(db_workers)) =>
          LET id == last_call'.arg.id
              kinds == last_call'.arg.task_kinds
          IN /\ StoredKindIds(worker_task_kinds', id) = KindIds(kinds)
             /\ StoredKinds(task_kinds', worker_task_kinds', id)
                   = {kinds[i] : i \in 1..Len(kinds)}
             /\ last_call'.value.task_kind = kinds
             /\ last_call'.value.id = id]_vars

\* A worker that was registered and then deactivated was registered again
\* under its id with a single kind, while two kinds exist.
C14_Witness ==
    /\ last_call.op = "register_worker"
    /\ last_call.result = "ok"
    /\ last_call.arg.id \in 1..Len(db_workers)
    /\ ~db_workers[last_call.arg.id].active
    /\ Len(last_call.arg.task_kinds) = 1
    /\ Cardinality(task_kinds) = 2
    /\ StoredKindIds(worker_task_kinds, last_call.arg.id)
          = KindIds(last_call.arg.task_kinds)

\* ----------------------------------------------------------------- C15

\* The rows of task_kinds that carry a name.
KindsNamedIn(table, name) == {k \in table : k.name = name}

\* C15: a successful get_or_create_task_kind(n) returns a kind named n that
\* is afterwards the only row of that name; when a row of that name existed
\* it returns that row, no row is ever changed or removed, and two calls
\* for the same name in a row return the same id and name.
C15_GetOrCreateIdempotent ==
    [][/\ task_kinds \subseteq task_kinds'
       /\ (/\ last_call'.op = "get_or_create_task_kind"
           /\ last_call'.result = "ok") =>
             LET name == last_call'.arg.name
             IN /\ last_call'.value.name = name
                /\ KindsNamedIn(task_kinds', name) = {last_call'.value}
                /\ KindsNamedIn(task_kinds, name) \subseteq {last_call'.value}
                /\ (/\ last_call.op = "get_or_create_task_kind"
                    /\ last_call.result = "ok"
                    /\ last_call.arg.name = name) =>
                       last_call'.value = last_call.value]_vars

\* get_or_create_task_kind returned a kind that a worker registered before
\* the call already has: the name was in the table when it was called.
C15_Witness ==
    /\ last_call.op = "get_or_create_task_kind"
    /\ last_call.result = "ok"
    /\ \E r \in worker_task_kinds : r.task_kind_id = last_call.value.id
    /\ Cardinality(task_kinds) = 2

\* ----------------------------------------------------------------- C16

\* C16: no two rows of task_kinds share a name, and none share an id,
\* whatever get_or_create_task_kind and the Worker Store's register_worker,
\* which inserts the kinds whose id is missing, have done.
C16_TaskKindNamesUnique ==
    \A a, b \in task_kinds : (a.name = b.name \/ a.id = b.id) => a = b

\* register_worker was given a kind under a new id whose name is taken and
\* failed, with two kinds in the table and a worker stored by an earlier
\* register_worker.
C16_Witness ==
    /\ last_call.op = "register_worker"
    /\ last_call.result = "err"
    /\ NameConflict(task_kinds, last_call.arg.task_kinds)
    /\ Cardinality(task_kinds) = 2
    /\ worker_task_kinds # {}

\* ----------------------------------------------------------------- C17

\* A task as create_task(k, x) leaves it: Pending, unassigned, of kind k,
\* with input x (JSON null for None) and no result.
FreshTask(stored, task_kind_id, input_data) ==
    /\ stored.task.status = "pending"
    /\ stored.task.assigned_to = NoId
    /\ stored.task.input_data = input_data
    /\ stored.task.task_kind.id = task_kind_id
    /\ stored.result = NoResult

\* C17: create_task(k, x) for an existing kind returns a task that is
\* Pending, unassigned, with input x and no result, and a
\* get_task_by_id(id, false) that follows it returns the same.
C17_CreatedTaskIsPending ==
    [][/\ (last_call'.op = "create_task" /\ last_call'.result = "ok") =>
             /\ FreshTask(last_call'.value, last_call'.arg.task_kind_id,
                          last_call'.arg.input_data)
             /\ last_call'.value.task.id = Len(tasks')
       /\ (/\ last_call.op = "create_task"
           /\ last_call.result = "ok"
           /\ last_call'.op = "get_task_by_id"
           /\ last_call'.arg = [id |-> last_call.value.task.id,
                                include_result |-> FALSE]) =>
             /\ last_call'.result = "ok" =>
                   /\ FreshTask(last_call'.value, last_call.arg.task_kind_id,
                                last_call.arg.input_data)
                   /\ last_call'.value.task.id = last_call.value.task.id
             /\ tasks[last_call.value.task.id].status = "pending"
             /\ tasks[last_call.value.task.id].assigned_to = NoId
             /\ tasks[last_call.value.task.id].input_data
                   = last_call.arg.input_data]_vars

\* get_task_by_id(id, false) returned the second task, created with an
\* input value, while the first task has a result row.
C17_Witness ==
    /\ last_call.op = "get_task_by_id"
    /\ last_call.result = "ok"
    /\ last_call.arg = [id |-> 2, include_result |-> FALSE]
    /\ last_call.value.task.input_data \in InputData
    /\ last_call.value.task.status = "pending"
    /\ \E i \in 1..Len(task_results) : task_results[i].task_id = 1

\* ----------------------------------------------------------------- C18

\* last_call' is the get_task_by_id(t, true) that follows a successful
\* upload `op` of task t recorded in last_call.
GetAfterUpload(op) ==
    /\ last_call.op = op
    /\ last_call.result = "ok"
    /\ last_call'.op = "get_task_by_id"
    /\ last_call'.result = "ok"
    /\ last_call'.arg = [id |-> last_call.arg.id, include_result |-> TRUE]

\* C18: a successful upload_task_result(t, w, o) on an existing task in any
\* status stores Completed, and the get_task_by_id(t, true) that follows
\* returns status Completed and a result with output_data = o, no
\* error_data and worker_id = w.
C18_UploadedResultIsReturned ==
    [][/\ (last_call'.op = "upload_task_result" /\ last_call'.result = "ok") =>
             tasks'[last_call'.arg.id].status = "completed"
       /\ GetAfterUpload("upload_task_result") =>
             /\ last_call'.value.task.status = "completed"
             /\ last_call'.value.result # NoResult
             /\ last_call'.value.result.task_id = last_call.arg.id
             /\ last_call'.value.result.output_data = last_call.arg.data
             /\ last_call'.value.result.error_data = JsonNull
             /\ last_call'.value.result.worker_id = last_call.arg.worker_id]_vars

\* get_task_by_id(t, true) returned a Completed task with the output of
\* worker 2, uploaded after an error of worker 1 had made the task Failed.
C18_Witness ==
    /\ last_call.op = "get_task_by_id"
    /\ last_call.result = "ok"
    /\ last_call.arg.include_result
    /\ last_call.value.task.status = "completed"
    /\ last_call.value.result.output_data \in ResultData
    /\ last_call.value.result.worker_id = 2
    /\ Len(task_results) = 2
    /\ task_results[1] = ResultRow(last_call.arg.id, 1, TRUE, "o1")
    /\ task_results[2].task_id = last_call.arg.id

\* ----------------------------------------------------------------- C19

\* C19: a successful upload_task_error(t, w, e) on an existing task in any
\* status stores Failed, and the get_task_by_id(t, true) that follows
\* returns status Failed and a result with error_data = e, no output_data
\* and worker_id = w.
C19_UploadedErrorIsReturned ==
    [][/\ (last_call'.op = "upload_task_error" /\ last_call'.result = "ok") =>
             tasks'[last_call'.arg.id].status = "failed"
       /\ GetAfterUpload("upload_task_error") =>
             /\ last_call'.value.task.status = "failed"
             /\ last_call'.value.result # NoResult
             /\ last_call'.value.result.task_id = last_call.arg.id
             /\ last_call'.value.result.error_data = last_call.arg.data
             /\ last_call'.value.result.output_data = JsonNull
             /\ last_call'.value.result.worker_id = last_call.arg.worker_id]_vars

\* get_task_by_id(t, true) returned a Failed task with the error of worker
\* 1, the only result row.
C19_Witness ==
    /\ last_call.op = "get_task_by_id"
    /\ last_call.result = "ok"
    /\ last_call.arg.include_result
    /\ last_call.value.task.status = "failed"
    /\ last_call.value.result.error_data \in ResultData
    /\ last_call.value.result.output_data = JsonNull
    /\ last_call.value.result.worker_id = 1
    /\ Len(task_results) = 1

\* ----------------------------------------------------------------- C20

\* A step is a successful upload_task_result or upload_task_error.
UploadSucceeds ==
    /\ last_call'.op \in {"upload_task_result", "upload_task_error"}
    /\ last_call'.result = "ok"

\* C20: task_results only grows at its end, by exactly one row per
\* successful upload and by none otherwise, and get_task_by_id(t, true)
\* returns the row inserted last for t, or no result when t has no row.
C20_ResultsAppendOnly ==
    [][/\ Len(task_results') >= Len(task_results)
       /\ SubSeq(task_results', 1, Len(task_results)) = task_results
       /\ Len(task_results')
             = Len(task_results) + (IF UploadSucceeds THEN 1 ELSE 0)
       /\ (/\ last_call'.op = "get_task_by_id"
           /\ last_call'.result = "ok"
           /\ last_call'.arg.include_result) =>
             LET t == last_call'.arg.id
                 rows == {i \in 1..Len(task_results) :
                            task_results[i].task_id = t}
             IN IF rows = {}
                THEN last_call'.value.result = NoResult
                ELSE \E i \in rows :
                        /\ \A j \in rows : j <= i
                        /\ last_call'.value.result = task_results[i]]_vars

\* get_task_by_id(t, true) returned the error uploaded second for a task
\* that also has the output uploaded first.
C20_Witness ==
    /\ last_call.op = "get_task_by_id"
    /\ last_call.result = "ok"
    /\ last_call.arg.include_result
    /\ Len(task_results) = 2
    /\ task_results[1].task_id = last_call.arg.id
    /\ task_results[2].task_id = last_call.arg.id
    /\ task_results[1].output_data \in ResultData
    /\ task_results[2].error_data \in ResultData
    /\ last_call.value.result = task_results[2]
    /\ last_call.value.task.status = "failed"

\* ----------------------------------------------------------------- C21

\* C21: every task_results row has exactly one of output_data and
\* error_data set, the other being NULL.
C21_ExactlyOneOfOutputAndError ==
    \A i \in 1..Len(task_results) :
       (task_results[i].output_data = JsonNull)
          # (task_results[i].error_data = JsonNull)

\* The table holds an output row and an error row, one of them with the
\* jsonb value null as its data.
C21_Witness ==
    /\ Len(task_results) = 2
    /\ task_results[1].output_data = JsonValueNull
    /\ task_results[2].error_data \in ResultData

\* ----------------------------------------------------------------- C22

\* C22: an upload changes the task's status and adds its result row in the
\* same step: a step that adds a row leaves that row's task Completed (an
\* output) or Failed (an error), and an upload that returns an error leaves
\* the statuses and the result rows as they were.
C22_UploadIsAtomic ==
    [][/\ Len(task_results') > Len(task_results) =>
             LET row == task_results'[Len(task_results')]
             IN /\ UploadSucceeds
                /\ row.task_id = last_call'.arg.id
                /\ tasks'[row.task_id].status =
                      UploadStatus(last_call'.op = "upload_task_error")
       /\ (/\ last_call'.op \in {"upload_task_result", "upload_task_error"}
           /\ last_call'.result = "err") =>
             /\ tasks' = tasks
             /\ task_results' = task_results
       /\ UploadSucceeds => Len(task_results') = Len(task_results) + 1]_vars

\* upload_task_result failed on a task that is still running, after an
\* upload for the other task had succeeded.
C22_Witness ==
    /\ last_call.op = "upload_task_result"
    /\ last_call.result = "err"
    /\ last_call.arg.id \in 1..Len(tasks)
    /\ tasks[last_call.arg.id].status = "running"
    /\ Len(task_results) = 1
    /\ task_results[1].task_id # last_call.arg.id

\* ----------------------------------------------------------------- C23

\* A body that names no status in any letter-casing.
Unrecognized(body) == ToLowercase(body) \notin TaskStatusNames

\* C23: a PUT /tasks/{id}/status whose body names no status is answered
\* 400 and leaves the database, the registry and the broker as they were;
\* no task ever has a stored status that is not a status name.
C23_InvalidStatusIsRejected ==
    [][/\ \A p \in Procs, id \in 1..MaxTasks, body \in StatusInputs :
             (Unrecognized(body) /\ StatusGet(p, id, body)) =>
                /\ resp'[p].status = "400"
                /\ pc'[p] = "idle"
                /\ UNCHANGED <<db_vars, registry_vars, driver_vars>>
       /\ \A i \in 1..Len(tasks') :
             tasks'[i].status \in TaskStatusNames]_vars

\* The body "bogus" was answered 400 while a submitted task is Queued with
\* its worker.
C23_Witness ==
    /\ \E p \in Procs :
          resp[p] = Response("status", "400", "Invalid task status: bogus")
    /\ \E i \in 1..Len(tasks) :
          tasks[i].status = "queued" /\ tasks[i].assigned_to # NoId

\* ----------------------------------------------------------------- C24

\* C24: a PUT /tasks/{id}/status on an existing task whose body names a
\* status in some letter-casing is not answered 400, and the update that
\* follows stores that status.
C24_StatusNamesCaseInsensitive ==
    [][/\ \A p \in Procs, id \in 1..MaxTasks, body \in StatusInputs :
             (/\ ~Unrecognized(body)
              /\ id \in 1..Len(tasks)
              /\ StatusGet(p, id, body)) => resp'[p].status # "400"
       /\ \A p \in Procs :
             (pc[p] = "t_update" /\ pc'[p] = "idle"
                /\ resp'[p].status = "200") =>
                tasks'[call[p].task.id].status
                   = ToLowercase(call[p].arg.status)]_vars

\* ----------------------------------------------------------------- C25

C27_RegisteredWorkerIsActive ==
    [][(last_call'.op = "register_worker" /\ last_call'.result = "ok") =>
          /\ db_workers'[last_call'.arg.id].active
          /\ last_call'.value.active]_vars

\* ----------------------------------------------------------------- C28

\* C28: every worker a POST /workers answered 201 for, stored in the
\* database and appended to the worker list, has at least one task kind.
C28_AcceptedWorkerHasKinds ==
    /\ \A i \in 1..Len(workers) : workers[i].task_kind # <<>>
    /\ \A i \in 1..Len(workers) :
          StoredKindIds(worker_task_kinds, workers[i].id) # {}

\* ----------------------------------------------------------------- C29

\* C29: a task whose stored status is Pending has no assignee.
C29_PendingIsUnassigned ==
    \A i \in 1..Len(tasks) :
       tasks[i].status = "pending" => tasks[i].assigned_to = NoId

\* ----------------------------------------------------------------- C30

\* C30: whenever the worker list is not empty the index is a position of
\* it, and no publish reads a position outside the list.
C30_IndexWithinWorkerList ==
    /\ workers # <<>> => workers_index \in 0..(Len(workers) - 1)
    /\ last_call.op = "publish" => last_call.result # "panic"

\* ----------------------------------------------------------------- C31

\* The statuses no update is expected after.
TerminalStatuses == {"completed", "failed", "cancelled"}

\* C31: a successful update_task_status(t, s) on an existing task sets its
\* status to s whatever the status was, terminal ones included, and leaves
\* every other column of the task, the other tasks and the result rows as
\* they were.
C31_NoTransitionValidation ==
    [][(/\ last_call'.op = "update_task_status"
        /\ last_call'.result = "ok"
        /\ last_call'.arg.id \in 1..Len(tasks)) =>
          LET t == last_call'.arg.id
          IN /\ tasks'[t].status = last_call'.arg.status
             /\ tasks'[t].assigned_to = tasks[t].assigned_to
             /\ tasks'[t].input_data = tasks[t].input_data
             /\ tasks'[t].task_kind_id = tasks[t].task_kind_id
             /\ Len(tasks') = Len(tasks)
             /\ \A i \in 1..Len(tasks) : i # t => tasks'[i] = tasks[i]
             /\ task_results' = task_results]_vars

\* update_task_status set an assigned task running while the other task,
\* assigned too, is in a terminal status.
C31_Witness ==
    /\ last_call.op = "update_task_status"
    /\ last_call.result = "ok"
    /\ last_call.arg = [id |-> 1, status |-> "running"]
    /\ Len(tasks) = 2
    /\ tasks[1].status = "running"
    /\ tasks[1].assigned_to # NoId
    /\ tasks[2].status \in TerminalStatuses
    /\ tasks[2].assigned_to # NoId

\* ----------------------------------------------------------------- C32

\* C32: a publish that fails because the broker rejected the message
\* leaves the worker list and the index as they were before the call, and
\* publishes nothing.
C32_RejectedPublishKeepsRegistry ==
    [][(/\ last_call'.op = "publish"
        /\ last_call'.result = "err"
        /\ last_call'.error = "publish_message") =>
          /\ workers' = workers
          /\ workers_index' = workers_index
          /\ broker_log' = broker_log]_vars

\* ----------------------------------------------------------------- C33

\* C33: a register_worker that fails because a queue could not be declared
\* leaves the worker list and the index as they were.
C33_FailedRegisterKeepsRegistry ==
    [][(last_call'.op = "register" /\ last_call'.result = "err") =>
          /\ workers' = workers
          /\ workers_index' = workers_index]_vars

\* register_worker failed after it had declared the first of the two queues
\* of the worker named "b", which is not in the list; the list holds
\* another worker.
C33_Witness ==
    /\ last_call.op = "register"
    /\ last_call.result = "err"
    /\ workers # <<>>
    /\ \A i \in 1..Len(workers) : workers[i].name # "b"
    /\ \E q \in queues : q.routing_key = "b"
    /\ \A q \in queues : q.queue # "k2"

\* ----------------------------------------------------------------- C34

\* C34: a remove_worker for an id that is not in the worker list returns an
\* error to its caller and leaves the list, the index and the queues as
\* they were.
C34_RemoveOfUnknownWorkerFails ==
    [][(last_call'.op = "remove"
          /\ Position(workers, last_call'.worker_id) = 0) =>
          /\ last_call'.result = "err"
          /\ workers' = workers
          /\ workers_index' = workers_index
          /\ queues' = queues]_vars

\* ----------------------------------------------------------------- C35

\* Process p's submit ends on a failed assign step.
AssignStepFails(p) ==
    /\ pc[p] = "s_assign"
    /\ pc'[p] = "idle"
    /\ resp'[p] = Response("submit", "500", "Failed to assign task to worker")

\* C35: when the assign step of a submit fails after its publish succeeded,
\* the submit is answered 500, the task's row is Pending with no worker
\* before and after the step, the published message is still in the broker,
\* and nothing else is written: no second publish, no other row.
C35_FailedAssignLeavesPendingAndMessage ==
    [][\A p \in Procs : AssignStepFails(p) =>
          LET t == call[p].task.id IN
          /\ tasks'[t].status = "pending"
          /\ tasks'[t].assigned_to = NoId
          /\ tasks' = tasks
          /\ task_results' = task_results
          /\ broker_log' = broker_log
          /\ \E k \in 1..Len(broker_log') :
                /\ broker_log'[k].exchange = call[p].task.task_kind.name
                /\ broker_log'[k].routing_key = call[p].worker.name
                /\ broker_log'[k].payload = call[p].task.input_data
          /\ pc'[p] = "idle"]_vars

\* A submit was answered 500 for its assign step: the last task is Pending
\* with no worker and the broker holds a message for it.
C35_Witness ==
    \E p \in Procs :
        /\ resp[p] = Response("submit", "500", "Failed to assign task to worker")
        /\ tasks # <<>>
        /\ tasks[Len(tasks)].status = "pending"
        /\ tasks[Len(tasks)].assigned_to = NoId
        /\ \E k \in 1..Len(broker_log) :
              broker_log[k].payload = tasks[Len(tasks)].input_data

\* ----------------------------------------------------------------- C36

\* C36: a register_worker that succeeds makes the worker list one entry
\* longer, the new entry last and carrying the registered id, whether or not
\* that id was in the list; a remove_worker that succeeds makes it one entry
\* shorter: the first entry with the id is gone and the others keep their
\* order.
C36_RegisterAppendsRemoveDropsFirst ==
    [][/\ (last_call'.op = "register" /\ last_call'.result = "ok") =>
             /\ Len(workers') = Len(workers) + 1
             /\ SubSeq(workers', 1, Len(workers)) = workers
             /\ workers'[Len(workers')].id = last_call'.worker_id
       /\ (last_call'.op = "remove" /\ last_call'.result = "ok") =>
             /\ Len(workers') = Len(workers) - 1
             /\ \E i \in 1..Len(workers) :
                   /\ workers[i].id = last_call'.worker_id
                   /\ \A j \in 1..(i - 1) : workers[j].id # last_call'.worker_id
                   /\ workers' = SubSeq(workers, 1, i - 1)
                                    \o SubSeq(workers, i + 1, Len(workers))]_vars

\* A remove_worker succeeded on a list that held its id twice, in front of
\* another worker: two entries are left, and the second entry with the id
\* is still there.
C36_Witness ==
    /\ last_call.op = "remove"
    /\ last_call.result = "ok"
    /\ Len(workers) = 2
    /\ workers[1].id = last_call.worker_id
    /\ workers[2].id # last_call.worker_id

\* ----------------------------------------------------------------- C37

\* C37: a publish that returns "No available worker" on a list of n > 0
\* workers has read and tested n positions, every position of the list
\* once, and leaves the index at its value before the call and the worker
\* list as it was.
C37_ExhaustedPublishRestoresIndex ==
    [][(/\ last_call'.op = "publish"
        /\ last_call'.result = "err"
        /\ last_call'.error = "No available worker"
        /\ workers # <<>>) =>
          LET s == Select(workers, workers_index, TaskOfKind(last_call'.kind))
          IN /\ Len(s.probed) = Len(workers)
             /\ \A i \in 0..(Len(workers) - 1) :
                   Cardinality({k \in 1..Len(s.probed) : s.probed[k] = i}) = 1
             /\ workers_index' = workers_index
             /\ workers' = workers]_vars

\* A publish found no worker among two workers, starting from the second
\* position.
C37_Witness ==
    /\ last_call.op = "publish"
    /\ last_call.result = "err"
    /\ last_call.error = "No available worker"
    /\ Len(workers) = 2
    /\ workers_index = 1

\* ----------------------------------------------------------------- C38

\* C38: the assigned_to of a stored task changes in one kind of step only:
\* the successful assign step of the submit that created the task, which
\* finds it null and sets it to the worker that submit selected.  No other
\* step (status update, result or error upload, worker register or
\* unregister, another submit) changes it, and no row is ever removed.
C38_AssignedOnceByOwnSubmit ==
    [][/\ Len(tasks') >= Len(tasks)
       /\ \A i \in 1..Len(tasks) :
             tasks'[i].assigned_to # tasks[i].assigned_to =>
                /\ tasks[i].assigned_to = NoId
                /\ \E p \in Procs :
                      /\ pc[p] = "s_assign"
                      /\ pc'[p] = "idle"
                      /\ call[p].task.id = i
                      /\ tasks'[i].assigned_to = call[p].worker.id]_vars

\* A task is still assigned to worker 1 after a result or error was
\* uploaded for it and worker 1 was deactivated by an unregister.
C38_Witness ==
    \E i \in 1..Len(tasks) :
        /\ tasks[i].assigned_to = 1
        /\ tasks[i].status \in {"completed", "failed"}
        /\ \E r \in 1..Len(task_results) : task_results[r].task_id = i
        /\ Len(db_workers) >= 1
        /\ ~db_workers[1].active

\* ----------------------------------------------------------------- C39

\* The status codes of an error response.
ErrorStatuses == {"400", "404", "500"}

\* C39 as stated: a PUT /tasks/{id}/result for a stored task with no worker
\* assigned is answered with an error status and writes neither the tasks
\* nor the results table; and every result row the endpoint writes carries
\* the assigned_to the task has when the row is written.
C39_UnassignedUploadIsRejected ==
    [][/\ \A p \in Procs, id \in 1..MaxTasks, is_error \in BOOLEAN :
             (/\ id \in 1..Len(tasks)
              /\ tasks[id].assigned_to = NoId
              /\ ResultGet(p, id, is_error)) =>
                /\ resp'[p].op = "result"
                /\ resp'[p].status \in ErrorStatuses
                /\ tasks' = tasks
                /\ task_results' = task_results
       /\ \A p \in Procs :
             (pc[p] = "x_upload" /\ task_results' # task_results) =>
                LET row == task_results'[Len(task_results')]
                IN /\ row.task_id = call[p].task.id
                   /\ row.worker_id # NoId
                   /\ row.worker_id = tasks[row.task_id].assigned_to]_vars

\* ----------------------------------------------------------------- C40

\* C40: when a submit is answered 201, the task in the body is the record
\* create_task returned (the submitted kind and input, Pending, no worker),
\* while the stored row of that task is Queued and assigned to the worker the
\* submit selected.
C40_ReturnedTaskIsAsCreated ==
    [][\A p \in Procs :
          (pc[p] = "s_assign" /\ pc'[p] = "idle" /\ resp'[p].status = "201") =>
             LET body == resp'[p].body
             IN /\ body = call[p].task
                /\ body.status = "pending"
                /\ body.assigned_to = NoId
                /\ body.id \in 1..Len(tasks')
                /\ body.input_data = tasks'[body.id].input_data
                /\ body.task_kind.id = tasks'[body.id].task_kind_id
                /\ tasks'[body.id].status = "queued"
                /\ tasks'[body.id].assigned_to = call[p].worker.id
                /\ call[p].worker.id # NoId]_vars

\* A submit was answered 201 with a Pending, unassigned task in the body
\* whose stored row is Queued and assigned.
C40_Witness ==
    \E p \in Procs :
        /\ resp[p].op = "submit"
        /\ resp[p].status = "201"
        /\ resp[p].body.status = "pending"
        /\ resp[p].body.assigned_to = NoId
        /\ tasks[resp[p].body.id].status = "queued"
        /\ tasks[resp[p].body.id].assigned_to # NoId

====
